---- MODULE Spec2Model ----
(***************************************************************************)
(* x11-idle-sync (src/src/main.rs): a tokio task that polls the X11        *)
(* screensaver idle time and forwards the idle/active classification to    *)
(* logind's Session.SetIdleHint, until SIGTERM/SIGINT.                      *)
(*                                                                         *)
(* Durations are integers in milliseconds.  pc is the position of main()   *)
(* (and of the async fn it is awaiting).  samples, calls, out, ticks,      *)
(* pending_at_first_wait, ticks_after_signal, signal_at and err are        *)
(* history variables: they record what the program and its environment did *)
(* (X11 queries answered, D-Bus calls issued, lines printed, signals).     *)
(*                                                                         *)
(* Signals are modelled from the moment ExitSignals::new has installed the *)
(* handlers: sigterm / sigint say that the tokio Signal stream has a       *)
(* notification its recv() has not consumed yet.  tokio never uninstalls   *)
(* the handlers, so a signal after run has returned changes nothing.       *)
(***************************************************************************)
EXTENDS Integers, Sequences, FiniteSets, TLC

\* Number of timer ticks the model lets the loop start.
MaxTicks == 3

\* Values of --idle-threshold (seconds) the model draws from.
Thresholds == {3, 50, 300}

VARIABLES
  args,              \* Args: idle_threshold (s), no_reset_on_exit, one_shot
  pc,                \* position of main / run / one_shot_check
  exit_status,       \* "running", "success" (Ok(())) or "failure" (Err)
  err,               \* context of the error main returned, "" if none
  sigterm, sigint,   \* ExitSignals: unconsumed notification of each stream
  monitor,           \* IdleMonitor {idle_threshold, check_interval} or NoMonitor
  state,             \* run: let mut state
  idle,              \* run / one_shot_check: let idle (ms)
  new_state,         \* run: let new_state; one_shot_check: let state
  elapsed,           \* the Sleep of the current select! has reached its deadline
  hint,              \* logind's IdleHint of the session (remote flag)
  inflight,          \* set_idle_hint calls sent and not yet answered
  samples,           \* idle durations get_idle_duration returned, in order
  calls,             \* set_idle_hint calls issued, in order
  out,               \* lines printed to stdout, in order
  ticks,             \* number of times the sleep branch of select! was taken
  pending_at_first_wait,  \* a signal was pending when run began its first wait
  ticks_after_signal,     \* ticks started while a notification was pending
  signal_at               \* pc at which the latest signal arrived, "" if none

vars == <<args, pc, exit_status, err, sigterm, sigint, monitor, state, idle,
          new_state, elapsed, hint, inflight, samples, calls, out, ticks,
          pending_at_first_wait, ticks_after_signal, signal_at>>

NoMonitor == [idle_threshold |-> -1, check_interval |-> -1]

----------------------------------------------------------------------------
(* Pure helpers *)

Max(a, b) == IF a >= b THEN a ELSE b

\* Duration::from_secs / Duration::from_millis, in milliseconds
FromSecs(s) == s * 1000
FromMillis(ms) == ms

CheckIntervalNoFloor(idle_threshold) == idle_threshold \div 10
\* IdleMonitor::new, line 64: (idle_threshold / 10).max(Duration::from_secs(5))
CheckInterval(idle_threshold) == Max(idle_threshold \div 10, FromSecs(5))

ClassifyStrict(d, t) == d > t
\* run line 99 / one_shot_check line 118: idle >= self.idle_threshold
Classify(d, t) == d >= t

TransitionAlways(new, old) == TRUE
\* run line 104: if new_state != state
Transition(new, old) == new # old

UserIs(s) == IF s THEN "User is idle" ELSE "User is active"

ResetUnlessSuppressed(a) == ~a.no_reset_on_exit
ResetAlways(a) == ~a.one_shot
ResetNever(a) == FALSE
\* main line 183: if !args.no_reset_on_exit && !args.one_shot
ResetOnExit(a) == ~a.no_reset_on_exit /\ ~a.one_shot

\* ms_since_user_input values the X server may answer with, around the threshold
IdleValues(t) == {0, t - 1, t, t + 1} \cap Nat

\* ExitSignals::recv is ready: one of the two streams has a notification
RecvReady == sigterm \/ sigint

----------------------------------------------------------------------------
Init ==
  /\ args \in [idle_threshold : Thresholds, no_reset_on_exit : BOOLEAN,
               one_shot : BOOLEAN]
  /\ pc = "main"
  /\ exit_status = "running"
  /\ err = ""
  /\ sigterm = FALSE
  /\ sigint = FALSE
  /\ monitor = NoMonitor
  /\ state = FALSE
  /\ idle = 0
  /\ new_state = FALSE
  /\ elapsed = FALSE
  /\ hint \in BOOLEAN
  /\ inflight = {}
  /\ samples = <<>>
  /\ calls = <<>>
  /\ out = <<>>
  /\ ticks = 0
  /\ pending_at_first_wait = FALSE
  /\ ticks_after_signal = 0
  /\ signal_at = ""

\* main returns Err(context): the process ends with a non-zero status
Fail(context) ==
  /\ pc' = "exit"
  /\ exit_status' = "failure"
  /\ err' = context

\* main returns Ok(())
Succeed ==
  /\ pc' = "exit"
  /\ exit_status' = "success"
  /\ err' = err

----------------------------------------------------------------------------
(* main, lines 162-174: startup *)

\* a handler that cannot be installed is reported and main goes on
ExitSignalsNewFailureReported ==
  /\ pc = "main"
  /\ pc' = "new"
  /\ \/ err' = err
     \/ err' \in {"Failed to install SIGTERM handler",
                  "Failed to install SIGINT handler"}
  /\ UNCHANGED <<args, exit_status, sigterm, sigint, monitor, state, idle,
                 new_state, elapsed, hint, inflight, samples, calls, out,
                 ticks, pending_at_first_wait, ticks_after_signal, signal_at>>

\* line 164: ExitSignals::new()? installs the SIGTERM and the SIGINT handler
ExitSignalsNew ==
  /\ pc = "main"
  /\ \/ /\ pc' = "new"
        /\ UNCHANGED <<exit_status, err>>
     \/ \E c \in {"Failed to install SIGTERM handler",
                  "Failed to install SIGINT handler"} : Fail(c)
  /\ UNCHANGED <<args, sigterm, sigint, monitor, state, idle, new_state,
                 elapsed, hint, inflight, samples, calls, out, ticks,
                 pending_at_first_wait, ticks_after_signal, signal_at>>

\* lines 165-174: IdleMonitor::new(Duration::from_secs(args.idle_threshold)),
\* then the start-up line; lines 176-180 pick one_shot_check or run
IdleMonitorNew ==
  /\ pc = "new"
  /\ \/ /\ monitor' = [idle_threshold |-> FromSecs(args.idle_threshold),
                       check_interval |->
                         CheckInterval(FromSecs(args.idle_threshold))]
        /\ out' = Append(out, "x11-idle-sync started")
        /\ pc' = IF args.one_shot THEN "one_shot_check" ELSE "run"
        /\ UNCHANGED <<exit_status, err>>
     \/ /\ \E c \in {"Failed to connect to X11 server",
                     "Failed to get X11 screen",
                     "Failed to connect to system D-Bus",
                     "Failed to create Login1Session proxy"} : Fail(c)
        /\ UNCHANGED <<monitor, out>>
  /\ UNCHANGED <<args, sigterm, sigint, state, idle, new_state, elapsed, hint,
                 inflight, samples, calls, ticks, pending_at_first_wait,
                 ticks_after_signal, signal_at>>

\* The environment delivers SIGTERM / SIGINT to the installed handlers; the
\* notifications of one stream coalesce.  After exit there is no process.
Sigterm ==
  /\ pc \notin {"main", "exit"}
  /\ ~sigterm
  /\ sigterm' = TRUE
  /\ signal_at' = pc
  /\ UNCHANGED <<args, pc, exit_status, err, sigint, monitor, state, idle,
                 new_state, elapsed, hint, inflight, samples, calls, out,
                 ticks, pending_at_first_wait,
                 ticks_after_signal>>

Sigint ==
  /\ pc \notin {"main", "exit"}
  /\ ~sigint
  /\ sigint' = TRUE
  /\ signal_at' = pc
  /\ UNCHANGED <<args, pc, exit_status, err, sigterm, monitor, state, idle,
                 new_state, elapsed, hint, inflight, samples, calls, out,
                 ticks, pending_at_first_wait,
                 ticks_after_signal>>

----------------------------------------------------------------------------
(* IdleMonitor::run, lines 87-114 *)

\* line 88: let mut state = false
RunEnter ==
  /\ pc = "run"
  /\ state' = FALSE
  /\ pc' = "select"
  /\ UNCHANGED <<args, exit_status, err, sigterm, sigint, monitor, idle,
                 new_state, elapsed, hint, inflight, samples, calls, out,
                 ticks, pending_at_first_wait,
                 ticks_after_signal, signal_at>>

\* the recv branch has an empty handler: it takes the notification and the
\* loop goes on
RecvBranchNoBreak ==
  /\ \/ sigterm /\ sigterm' = FALSE /\ sigint' = sigint
     \/ sigint /\ sigint' = FALSE /\ sigterm' = sigterm
  /\ out' = out
  /\ pc' = "select"
  /\ UNCHANGED <<ticks, ticks_after_signal>>

\* lines 92-95 with 153-158: the recv branch of select! completes; recv takes
\* the notification of one stream; the loop breaks and run returns Ok(())
RecvBranch ==
  /\ \/ sigterm /\ sigterm' = FALSE /\ sigint' = sigint
     \/ sigint /\ sigint' = FALSE /\ sigterm' = sigterm
  /\ out' = Append(out, "Received shutdown signal")
  /\ pc' = "returned"
  /\ UNCHANGED <<ticks, ticks_after_signal>>

\* the signal streams are created anew in each iteration: a tick drops what
\* was pending
SleepBranchDropsSignal ==
  /\ ticks < MaxTicks
  /\ ticks' = ticks + 1
  /\ ticks_after_signal' =
       IF RecvReady THEN ticks_after_signal + 1 ELSE ticks_after_signal
  /\ pc' = "tick"
  /\ sigterm' = FALSE
  /\ sigint' = FALSE
  /\ UNCHANGED out

\* line 97: the sleep branch of select! completes and its handler starts
SleepBranch ==
  /\ ticks < MaxTicks
  /\ ticks' = ticks + 1
  /\ ticks_after_signal' =
       IF RecvReady THEN ticks_after_signal + 1 ELSE ticks_after_signal
  /\ pc' = "tick"
  /\ UNCHANGED <<sigterm, sigint, out>>

\* a timer whose first tick completes at once (tokio's interval)
FirstPollImmediateTick ==
  /\ \/ RecvBranch
     \/ SleepBranch
  /\ elapsed' = TRUE

\* lines 91, 97: select! creates sleep(check_interval) and polls both branches
\* for the first time.  check_interval >= 5 s, so the new Sleep is pending;
\* the recv branch completes if a notification is already there.
FirstPoll ==
  IF RecvReady
    THEN RecvBranch /\ UNCHANGED elapsed
    ELSE /\ pc' = "waiting"
         /\ elapsed' = FALSE
         /\ UNCHANGED <<sigterm, sigint, out, ticks, ticks_after_signal>>

SelectPoll ==
  /\ pc = "select"
  /\ FirstPoll
  /\ pending_at_first_wait' =
       IF ticks = 0 THEN RecvReady ELSE pending_at_first_wait
  /\ UNCHANGED <<args, exit_status, err, monitor, state, idle, new_state,
                 hint, inflight, samples, calls, signal_at>>

\* the timer driver: the deadline of the Sleep passes while the task waits
SleepElapse ==
  /\ pc = "waiting"
  /\ ~elapsed
  /\ elapsed' = TRUE
  /\ UNCHANGED <<args, pc, exit_status, err, sigterm, sigint, monitor, state,
                 idle, new_state, hint, inflight, samples, calls, out, ticks,
                 pending_at_first_wait, ticks_after_signal, signal_at>>

\* line 91: the task is woken and select! polls its branches in random order;
\* the first branch found ready completes and the other is dropped
SelectWake ==
  /\ pc = "waiting"
  /\ \/ RecvBranch
     \/ elapsed /\ SleepBranch
  /\ UNCHANGED <<args, exit_status, err, monitor, state, idle, new_state,
                 elapsed, hint, inflight, samples, calls,
                 pending_at_first_wait, signal_at>>

\* line 98: get_idle_duration (lines 75-85) answers d; line 99 classifies it
TickSample ==
  /\ pc = "tick"
  /\ \E d \in IdleValues(monitor.idle_threshold) :
       /\ idle' = FromMillis(d)
       /\ samples' = Append(samples, FromMillis(d))
       /\ new_state' = Classify(FromMillis(d), monitor.idle_threshold)
  /\ pc' = "set_idle_hint"
  /\ UNCHANGED <<args, exit_status, err, sigterm, sigint, monitor, state,
                 elapsed, hint, inflight, calls, out, ticks,
                 pending_at_first_wait, ticks_after_signal, signal_at>>

\* the failed sample is skipped and the loop goes on
TickSampleFailSkip ==
  /\ pc = "tick"
  /\ pc' = "select"
  /\ UNCHANGED <<args, exit_status, err, sigterm, sigint, monitor, state, idle,
                 new_state, elapsed, hint, inflight, samples, calls, out,
                 ticks, pending_at_first_wait,
                 ticks_after_signal, signal_at>>

\* line 98 with 79-82: wait_for_reply fails and `?` returns the error from run;
\* line 179: `?` returns it from main
TickSampleFail ==
  /\ pc = "tick"
  /\ Fail("Failed to get screensaver info")
  /\ UNCHANGED <<args, sigterm, sigint, monitor, state, idle, new_state,
                 elapsed, hint, inflight, samples, calls, out, ticks,
                 pending_at_first_wait, ticks_after_signal, signal_at>>

\* the call is spawned as a task of its own and the loop does not await it
TickHintCallSpawned ==
  /\ pc = "set_idle_hint"
  /\ calls' = Append(calls, [idle |-> new_state, by |-> "run"])
  /\ inflight' = inflight \cup {[idle |-> new_state, by |-> "run"]}
  /\ pc' = "select"
  /\ UNCHANGED <<args, exit_status, err, sigterm, sigint, monitor, state, idle,
                 new_state, elapsed, hint, samples, out, ticks,
                 pending_at_first_wait, ticks_after_signal, signal_at>>

\* lines 100-101: the SetIdleHint(new_state) call is sent and awaited
TickHintCall ==
  /\ pc = "set_idle_hint"
  /\ calls' = Append(calls, [idle |-> new_state, by |-> "run"])
  /\ inflight' = inflight \cup {[idle |-> new_state, by |-> "run"]}
  /\ pc' = "await_idle_hint"
  /\ UNCHANGED <<args, exit_status, err, sigterm, sigint, monitor, state, idle,
                 new_state, elapsed, hint, samples, out, ticks,
                 pending_at_first_wait, ticks_after_signal, signal_at>>

\* the whole tick raced against recv: a signal cancels the call in flight
TickHintOkOrCancelled ==
  /\ pc = "await_idle_hint"
  /\ inflight' = inflight \ {[idle |-> new_state, by |-> "run"]}
  /\ \/ /\ hint' = new_state
        /\ out' = IF Transition(new_state, state)
                    THEN Append(out, UserIs(new_state)) ELSE out
        /\ state' = new_state
        /\ pc' = "select"
        /\ UNCHANGED <<sigterm, sigint>>
     \/ /\ RecvReady
        /\ \/ sigterm /\ sigterm' = FALSE /\ sigint' = sigint
           \/ sigint /\ sigint' = FALSE /\ sigterm' = sigterm
        /\ hint' \in {hint, new_state}
        /\ out' = Append(out, "Received shutdown signal")
        /\ pc' = "returned"
        /\ UNCHANGED state
  /\ UNCHANGED <<args, exit_status, err, monitor, idle, new_state, elapsed,
                 samples, calls, ticks, pending_at_first_wait,
                 ticks_after_signal, signal_at>>

\* state is assigned only inside the `if`, from the old value
TickHintOkStale ==
  /\ pc = "await_idle_hint"
  /\ hint' = new_state
  /\ inflight' = inflight \ {[idle |-> new_state, by |-> "run"]}
  /\ out' = IF Transition(new_state, state)
              THEN Append(out, UserIs(new_state)) ELSE out
  /\ state' = state
  /\ pc' = "select"
  /\ UNCHANGED <<args, exit_status, err, sigterm, sigint, monitor, idle,
                 new_state, elapsed, samples, calls, ticks,
                 pending_at_first_wait, ticks_after_signal, signal_at>>

\* the loop body ends with a return instead of falling through to the next
\* iteration
TickHintOkThenReturn ==
  /\ pc = "await_idle_hint"
  /\ hint' = new_state
  /\ inflight' = inflight \ {[idle |-> new_state, by |-> "run"]}
  /\ out' = IF Transition(new_state, state)
              THEN Append(out, UserIs(new_state)) ELSE out
  /\ state' = new_state
  /\ pc' = "returned"
  /\ UNCHANGED <<args, exit_status, err, sigterm, sigint, monitor, idle,
                 new_state, elapsed, samples, calls, ticks,
                 pending_at_first_wait, ticks_after_signal, signal_at>>

\* lines 101-108: the call returns Ok; the transition is printed and state is
\* assigned; the loop goes back to select!
TickHintOk ==
  /\ pc = "await_idle_hint"
  /\ hint' = new_state
  /\ inflight' = inflight \ {[idle |-> new_state, by |-> "run"]}
  /\ out' = IF Transition(new_state, state)
              THEN Append(out, UserIs(new_state)) ELSE out
  /\ state' = new_state
  /\ pc' = "select"
  /\ UNCHANGED <<args, exit_status, err, sigterm, sigint, monitor, idle,
                 new_state, elapsed, samples, calls, ticks,
                 pending_at_first_wait, ticks_after_signal, signal_at>>

\* the transition is printed and state assigned before the call's result is
\* looked at
TickHintFailAfterUpdate ==
  /\ pc = "await_idle_hint"
  /\ hint' \in {hint, new_state}
  /\ inflight' = inflight \ {[idle |-> new_state, by |-> "run"]}
  /\ out' = IF Transition(new_state, state)
              THEN Append(out, UserIs(new_state)) ELSE out
  /\ state' = new_state
  /\ Fail("Failed to set idle hint")
  /\ UNCHANGED <<args, sigterm, sigint, monitor, idle, new_state, elapsed,
                 samples, calls, ticks, pending_at_first_wait,
                 ticks_after_signal, signal_at>>

\* the failed call is sent again
TickHintFailRetry ==
  /\ pc = "await_idle_hint"
  /\ Len(calls) <= MaxTicks
  /\ inflight' = inflight \ {[idle |-> new_state, by |-> "run"]}
  /\ pc' = "set_idle_hint"
  /\ UNCHANGED <<args, exit_status, err, sigterm, sigint, monitor, state, idle,
                 new_state, elapsed, hint, samples, calls, out, ticks,
                 pending_at_first_wait, ticks_after_signal, signal_at>>

\* lines 100-102: the call returns Err (whether or not logind had applied it)
\* and `?` returns the error from run; line 179: `?` returns it from main
TickHintFail ==
  /\ pc = "await_idle_hint"
  /\ hint' \in {hint, new_state}
  /\ inflight' = inflight \ {[idle |-> new_state, by |-> "run"]}
  /\ Fail("Failed to set idle hint")
  /\ UNCHANGED <<args, sigterm, sigint, monitor, state, idle, new_state,
                 elapsed, samples, calls, out, ticks, pending_at_first_wait,
                 ticks_after_signal, signal_at>>

----------------------------------------------------------------------------
(* IdleMonitor::one_shot_check, lines 116-126 *)

\* lines 117-118: get_idle_duration answers d, which is classified
OneShotSample ==
  /\ pc = "one_shot_check"
  /\ \E d \in IdleValues(monitor.idle_threshold) :
       /\ idle' = FromMillis(d)
       /\ samples' = Append(samples, FromMillis(d))
       /\ new_state' = Classify(FromMillis(d), monitor.idle_threshold)
  /\ pc' = "one_shot_set_idle_hint"
  /\ UNCHANGED <<args, exit_status, err, sigterm, sigint, monitor, state,
                 elapsed, hint, inflight, calls, out, ticks,
                 pending_at_first_wait, ticks_after_signal, signal_at>>

\* line 117 with 79-82: the query fails; `?` here and at line 177
OneShotSampleFail ==
  /\ pc = "one_shot_check"
  /\ Fail("Failed to get screensaver info")
  /\ UNCHANGED <<args, sigterm, sigint, monitor, state, idle, new_state,
                 elapsed, hint, inflight, samples, calls, out, ticks,
                 pending_at_first_wait, ticks_after_signal, signal_at>>

\* lines 119-122: the SetIdleHint(state) call is sent and awaited
OneShotHintCall ==
  /\ pc = "one_shot_set_idle_hint"
  /\ calls' = Append(calls, [idle |-> new_state, by |-> "one_shot_check"])
  /\ inflight' = inflight \cup {[idle |-> new_state, by |-> "one_shot_check"]}
  /\ pc' = "one_shot_await_idle_hint"
  /\ UNCHANGED <<args, exit_status, err, sigterm, sigint, monitor, state, idle,
                 new_state, elapsed, hint, samples, out, ticks,
                 pending_at_first_wait, ticks_after_signal, signal_at>>

\* the state is printed only when it differs from Active
OneShotHintOkOnTransition ==
  /\ pc = "one_shot_await_idle_hint"
  /\ hint' = new_state
  /\ inflight' = inflight \ {[idle |-> new_state, by |-> "one_shot_check"]}
  /\ out' = IF Transition(new_state, FALSE)
              THEN Append(out, UserIs(new_state)) ELSE out
  /\ pc' = "returned"
  /\ UNCHANGED <<args, exit_status, err, sigterm, sigint, monitor, state, idle,
                 new_state, elapsed, samples, calls, ticks,
                 pending_at_first_wait, ticks_after_signal, signal_at>>

\* lines 122-125: the call returns Ok; line 124 prints the state, whatever it
\* is; one_shot_check returns Ok(())
OneShotHintOk ==
  /\ pc = "one_shot_await_idle_hint"
  /\ hint' = new_state
  /\ inflight' = inflight \ {[idle |-> new_state, by |-> "one_shot_check"]}
  /\ out' = Append(out, UserIs(new_state))
  /\ pc' = "returned"
  /\ UNCHANGED <<args, exit_status, err, sigterm, sigint, monitor, state, idle,
                 new_state, elapsed, samples, calls, ticks,
                 pending_at_first_wait, ticks_after_signal, signal_at>>

\* lines 119-123: the call returns Err; `?` here and at line 177
OneShotHintFail ==
  /\ pc = "one_shot_await_idle_hint"
  /\ hint' \in {hint, new_state}
  /\ inflight' = inflight \ {[idle |-> new_state, by |-> "one_shot_check"]}
  /\ Fail("Failed to set idle hint")
  /\ UNCHANGED <<args, sigterm, sigint, monitor, state, idle, new_state,
                 elapsed, samples, calls, out, ticks, pending_at_first_wait,
                 ticks_after_signal, signal_at>>

----------------------------------------------------------------------------
(* main, lines 182-190: after run / one_shot_check returned Ok *)

\* the reset call as a handler run on every exit, also after a fatal error
MainResetAlsoOnFailure ==
  /\ \/ pc = "returned"
     \/ pc = "exit" /\ exit_status = "failure" /\ Len(calls) <= MaxTicks
  /\ ResetOnExit(args)
  /\ calls' = Append(calls, [idle |-> FALSE, by |-> "set_idle_hint_false"])
  /\ inflight' = inflight \cup {[idle |-> FALSE, by |-> "set_idle_hint_false"]}
  /\ pc' = "await_reset"
  /\ UNCHANGED <<args, exit_status, err, sigterm, sigint, monitor, state, idle,
                 new_state, elapsed, hint, samples, out, ticks,
                 pending_at_first_wait, ticks_after_signal, signal_at>>

\* lines 183-184 with 128-132: set_idle_hint_false sends SetIdleHint(false)
MainReset ==
  /\ pc = "returned"
  /\ ResetOnExit(args)
  /\ calls' = Append(calls, [idle |-> FALSE, by |-> "set_idle_hint_false"])
  /\ inflight' = inflight \cup {[idle |-> FALSE, by |-> "set_idle_hint_false"]}
  /\ pc' = "await_reset"
  /\ UNCHANGED <<args, exit_status, err, sigterm, sigint, monitor, state, idle,
                 new_state, elapsed, hint, samples, out, ticks,
                 pending_at_first_wait, ticks_after_signal, signal_at>>

\* lines 186-190: the reset is skipped and main returns Ok(())
MainNoReset ==
  /\ pc = "returned"
  /\ ~ResetOnExit(args)
  /\ out' = Append(out, "Exiting without resetting idle hint.")
  /\ Succeed
  /\ UNCHANGED <<args, sigterm, sigint, monitor, state, idle, new_state,
                 elapsed, hint, inflight, samples, calls, ticks,
                 pending_at_first_wait, ticks_after_signal, signal_at>>

\* lines 184-185, 190: the reset call returns Ok and main returns Ok(())
MainResetOk ==
  /\ pc = "await_reset"
  /\ hint' = FALSE
  /\ inflight' = inflight \ {[idle |-> FALSE, by |-> "set_idle_hint_false"]}
  /\ out' = Append(out, "Idle hint set to false. Exiting.")
  /\ Succeed
  /\ UNCHANGED <<args, sigterm, sigint, monitor, state, idle, new_state,
                 elapsed, samples, calls, ticks, pending_at_first_wait,
                 ticks_after_signal, signal_at>>

\* the failure of the reset call is printed and main still returns Ok(())
MainResetFailReported ==
  /\ pc = "await_reset"
  /\ hint' \in {hint, FALSE}
  /\ inflight' = inflight \ {[idle |-> FALSE, by |-> "set_idle_hint_false"]}
  /\ out' = Append(out, "Failed to set idle hint to false")
  /\ Succeed
  /\ UNCHANGED <<args, sigterm, sigint, monitor, state, idle, new_state,
                 elapsed, samples, calls, ticks, pending_at_first_wait,
                 ticks_after_signal, signal_at>>

\* line 184 with 128-133: the reset call returns Err and `?` returns it from
\* main
MainResetFail ==
  /\ pc = "await_reset"
  /\ hint' \in {hint, FALSE}
  /\ inflight' = inflight \ {[idle |-> FALSE, by |-> "set_idle_hint_false"]}
  /\ Fail("Failed to set idle hint to false")
  /\ UNCHANGED <<args, sigterm, sigint, monitor, state, idle, new_state,
                 elapsed, samples, calls, out, ticks, pending_at_first_wait,
                 ticks_after_signal, signal_at>>

----------------------------------------------------------------------------
Next ==
  \/ ExitSignalsNew
  \/ IdleMonitorNew
  \/ Sigterm
  \/ Sigint
  \/ RunEnter
  \/ SelectPoll
  \/ SleepElapse
  \/ SelectWake
  \/ TickSample
  \/ TickSampleFail
  \/ TickHintCall
  \/ TickHintOk
  \/ TickHintFail
  \/ OneShotSample
  \/ OneShotSampleFail
  \/ OneShotHintCall
  \/ OneShotHintOk
  \/ OneShotHintFail
  \/ MainReset
  \/ MainNoReset
  \/ MainResetOk
  \/ MainResetFail

Spec == Init /\ [][Next]_vars

\* the steps of the task itself: main and the async fns it awaits, the
\* X11 replies and the D-Bus replies included
Step ==
  \/ ExitSignalsNew
  \/ IdleMonitorNew
  \/ RunEnter
  \/ SelectPoll
  \/ SelectWake
  \/ TickSample
  \/ TickSampleFail
  \/ TickHintCall
  \/ TickHintOk
  \/ TickHintFail
  \/ OneShotSample
  \/ OneShotSampleFail
  \/ OneShotHintCall
  \/ OneShotHintOk
  \/ OneShotHintFail
  \/ MainReset
  \/ MainNoReset
  \/ MainResetOk
  \/ MainResetFail

\* The tokio runtime polls a woken task, time passes (a Sleep reaches its
\* deadline), and every X11 query and D-Bus call is answered.  Signals are
\* the environment's choice: no fairness.
FairSpec == Spec /\ WF_vars(Step) /\ WF_vars(SleepElapse)

TypeOK ==
  /\ pc \in {"main", "new", "run", "select", "waiting", "tick", "set_idle_hint",
             "await_idle_hint", "one_shot_check", "one_shot_set_idle_hint",
             "one_shot_await_idle_hint", "returned", "await_reset", "exit"}
  /\ exit_status \in {"running", "success", "failure"}
  /\ (pc = "exit") = (exit_status # "running")
  /\ {sigterm, sigint, state, new_state, elapsed, hint} \subseteq BOOLEAN
  /\ ticks \in 0..MaxTicks
  /\ Len(samples) <= MaxTicks /\ Len(calls) <= MaxTicks + 1

----------------------------------------------------------------------------
(* Vocabulary of the properties *)

Continuous == ~args.one_shot

Range(f) == {f[i] : i \in DOMAIN f}

\* indices of the set_idle_hint calls issued by function b
CallsBy(b) == {i \in DOMAIN calls : calls[i].by = b}

ResetCall == [idle |-> FALSE, by |-> "set_idle_hint_false"]

IsNotification(line) == line \in {"User is idle", "User is active"}

\* the state notifications printed so far, in order
Notifications == SelectSeq(out, IsNotification)

\* classification of the i-th answered sample
Class(i) == samples[i] >= monitor.idle_threshold

ShutdownObserved == "Received shutdown signal" \in Range(out)

QueryFailure == "Failed to get screensaver info"
RemoteCallFailure == "Failed to set idle hint"
ResetFailure == "Failed to set idle hint to false"

----------------------------------------------------------------------------
\* C1: in continuous mode, when a shutdown notification is already pending as
\* run begins its first wait, no tick is started, no sample is taken and no
\* set_idle_hint call is made by the loop; and when the reset is not
\* suppressed, the process ends having made exactly one call, the final
\* set_idle_hint(false).
C1_ShutdownPendingAtFirstWait ==
  pending_at_first_wait =>
    /\ Continuous
    /\ ticks = 0
    /\ samples = <<>>
    /\ CallsBy("run") = {}
    /\ pc \in {"returned", "await_reset", "exit"}
    /\ (pc = "exit" /\ ~args.no_reset_on_exit) => calls = <<ResetCall>>

C1_Witness ==
  /\ pending_at_first_wait
  /\ ~args.no_reset_on_exit
  /\ pc = "exit"
  /\ calls = <<ResetCall>>

\* C2: the final set_idle_hint(false) is issued at most once; it has been
\* issued exactly once when a continuous run that observed a shutdown and does
\* not suppress the reset has ended; it is never issued when run ended with a
\* fatal error.
C2_FinalCallAtMostOnce ==
  /\ Cardinality(CallsBy("set_idle_hint_false")) <= 1
  /\ (pc = "exit" /\ Continuous /\ ShutdownObserved /\ ~args.no_reset_on_exit)
       => Cardinality(CallsBy("set_idle_hint_false")) = 1
  /\ err \in {QueryFailure, RemoteCallFailure}
       => CallsBy("set_idle_hint_false") = {}

C2_Witness ==
  /\ pc = "exit"
  /\ Continuous
  /\ ShutdownObserved
  /\ ticks >= 2
  /\ Cardinality(CallsBy("set_idle_hint_false")) = 1

\* C3: a continuous run without suppressed reset that ends with success (a
\* graceful shutdown and a successful final call) leaves the remote idle flag
\* false, whatever the ticks before set it to.
C3_FlagFalseAfterGracefulExit ==
  (pc = "exit" /\ exit_status = "success" /\ Continuous
     /\ ~args.no_reset_on_exit)
    => /\ ShutdownObserved
       /\ hint = FALSE

C3_Witness ==
  /\ pc = "exit"
  /\ exit_status = "success"
  /\ Continuous
  /\ ~args.no_reset_on_exit
  /\ state = TRUE
  /\ \E i \in DOMAIN calls : calls[i].idle
  /\ hint = FALSE

\* C4: when sampling fails on tick k of the loop, ticks 1..k-1 each made their
\* own set_idle_hint call with their classification, tick k made none, the
\* run ended with the query failure and a failure status, and no reset call
\* was made; a tick is never left without its sample unless it is in progress
\* or ended the run this way (no skipping).
C4_SamplingFailureIsFatal ==
  Continuous =>
    /\ Len(samples) < ticks
         => (pc = "tick" \/ (pc = "exit" /\ err = QueryFailure))
    /\ err = QueryFailure
         => /\ pc = "exit"
            /\ exit_status = "failure"
            /\ Len(samples) = ticks - 1
            /\ Len(calls) = ticks - 1
            /\ \A i \in 1..(ticks - 1) :
                 calls[i] = [idle |-> Class(i), by |-> "run"]
            /\ inflight = {}

C4_Witness ==
  /\ Continuous
  /\ err = QueryFailure
  /\ ticks = 3
  /\ Len(calls) = 2

\* C5: when a set_idle_hint call of a tick fails, the run ends with that
\* failure and a failure status; the call is not sent again (one call per
\* sample, ever), no later tick exists, and no reset call is made.
C5_TickCallFailureIsFatal ==
  Continuous =>
    /\ Cardinality(CallsBy("run")) <= Len(samples)
    /\ err = RemoteCallFailure
         => /\ pc = "exit"
            /\ exit_status = "failure"
            /\ Len(samples) = ticks
            /\ Len(calls) = ticks
            /\ CallsBy("run") = DOMAIN calls
            /\ inflight = {}

C5_Witness ==
  /\ Continuous
  /\ err = RemoteCallFailure
  /\ ticks = 2
  /\ Len(calls) = 2

\* the notifications a run prints for the classifications cls[1..n], the
\* state before the first tick being prev
RECURSIVE ExpectedNotifications(_, _, _)
ExpectedNotifications(n, k, prev) ==
  IF k > n THEN <<>>
  ELSE (IF Class(k) # prev THEN <<UserIs(Class(k))>> ELSE <<>>)
         \o ExpectedNotifications(n, k + 1, Class(k))

\* ticks of run whose set_idle_hint call has returned Ok
CompletedTicks ==
  IF pc = "await_idle_hint" \/ err = RemoteCallFailure
    THEN Len(calls) - 1
    ELSE Cardinality(CallsBy("run"))

\* C6: in continuous mode every answered sample gets one set_idle_hint call
\* carrying its classification (changed or not), and the notifications
\* printed are exactly those of the completed ticks whose classification
\* differs from the previous tick's (Active before the first).
C6_CallEveryTickNotifyOnChange ==
  Continuous =>
    /\ \A i \in CallsBy("run") :
         i <= Len(samples) /\ calls[i].idle = Class(i)
    /\ Cardinality(CallsBy("run")) =
         (IF pc = "set_idle_hint" THEN Len(samples) - 1 ELSE Len(samples))
    /\ Notifications = ExpectedNotifications(CompletedTicks, 1, FALSE)

C6_Witness ==
  /\ Continuous
  /\ pc = "waiting"
  /\ Len(samples) = 2
  /\ Class(1) /\ Class(2)
  /\ Len(calls) = 2
  /\ Notifications = <<"User is idle">>

\* C7: every set_idle_hint call of a tick or of the one-shot check carries
\* TRUE exactly when the sample it follows is >= the threshold (a sample equal
\* to the threshold is Idle).
C7_IdleIffAtLeastThreshold ==
  /\ \A i \in CallsBy("run") \cup CallsBy("one_shot_check") :
       /\ i <= Len(samples)
       /\ calls[i].idle = (samples[i] >= FromSecs(args.idle_threshold))
  /\ pc \in {"set_idle_hint", "one_shot_set_idle_hint"}
       => new_state = (idle >= FromSecs(args.idle_threshold))

C7_WitnessOneShot ==
  /\ args.one_shot
  /\ Len(calls) = 1
  /\ samples[1] = FromSecs(args.idle_threshold)
  /\ calls[1] = [idle |-> TRUE, by |-> "one_shot_check"]

C7_Witness ==
  /\ Continuous
  /\ Len(samples) = 2
  /\ Len(calls) = 2
  /\ samples[1] = FromSecs(args.idle_threshold) /\ calls[1].idle
  /\ samples[2] = FromSecs(args.idle_threshold) - 1 /\ ~calls[2].idle

\* C8 as stated: a one-shot run prints a state notification only if the
\* sampled state is Idle.
C8_OneShotNotifiesOnlyIdle ==
  args.one_shot => "User is active" \notin Range(out)

\* C8 amended: a one-shot run whose call succeeded has printed exactly one
\* notification, the sampled state, be it Idle or Active; a one-shot run whose
\* sample or call did not succeed has printed none.
C8_OneShotAlwaysNotifies ==
  args.one_shot =>
    Notifications =
      (IF pc = "returned" \/ exit_status = "success"
         THEN <<UserIs(Class(1))>> ELSE <<>>)

C8_Witness ==
  /\ args.one_shot
  /\ exit_status = "success"
  /\ samples = <<FromSecs(args.idle_threshold) - 1>>
  /\ Notifications = <<"User is active">>

\* C9: a one-shot run takes at most one sample and makes at most one
\* set_idle_hint call, never enters the loop or observes a shutdown, never
\* makes the reset call whatever no_reset_on_exit is, and when it has ended
\* with success it has taken exactly one sample and made exactly one call, with
\* that sample's classification; it fails only if the sample or the call (or
\* the start-up) failed.
C9_OneShotSingleCycle ==
  args.one_shot =>
    /\ Len(samples) <= 1
    /\ Len(calls) <= 1
    /\ CallsBy("one_shot_check") = DOMAIN calls
    /\ ticks = 0
    /\ pc \notin {"run", "select", "waiting", "tick", "set_idle_hint",
                  "await_idle_hint", "await_reset"}
    /\ ~ShutdownObserved
    /\ exit_status = "success"
         => /\ Len(samples) = 1
            /\ calls = <<[idle |-> Class(1), by |-> "one_shot_check"]>>
            /\ hint = Class(1)
    /\ exit_status = "failure"
         => \/ err \in {QueryFailure, RemoteCallFailure}
            \/ monitor = NoMonitor

C9_Witness ==
  /\ args.one_shot
  /\ ~args.no_reset_on_exit
  /\ exit_status = "success"
  /\ sigterm
  /\ calls = <<[idle |-> TRUE, by |-> "one_shot_check"]>>

\* C10: with no_reset_on_exit, once the loop has exited on a shutdown no
\* set_idle_hint call is made any more: the calls of the process are those of
\* its ticks, the last one (if any) carrying the last tick's classification,
\* which is what the remote flag is left at.
C10_SuppressedResetLeavesLastTick ==
  (Continuous /\ args.no_reset_on_exit /\ ShutdownObserved) =>
    /\ pc \in {"returned", "exit"}
    /\ exit_status \in {"running", "success"}
    /\ CallsBy("run") = DOMAIN calls
    /\ Len(calls) = ticks
    /\ Len(samples) = ticks
    /\ ticks > 0 => /\ calls[ticks].idle = Class(ticks)
                    /\ hint = Class(ticks)

C10_Witness ==
  /\ Continuous
  /\ pc = "exit"
  /\ args.no_reset_on_exit
  /\ ShutdownObserved
  /\ ticks = 2
  /\ ~Class(1) /\ Class(2)
  /\ hint = TRUE

\* C11 as stated: a continuous run that left the loop on a shutdown ends with
\* success status, also when the final set_idle_hint(false) call failed.
C11_GracefulExitIsSuccess ==
  (Continuous /\ ShutdownObserved /\ pc = "exit") => exit_status = "success"

\* C11 amended: when the loop has exited on a shutdown and the final
\* set_idle_hint(false) call then fails, that failure is what main returns:
\* the process ends with failure status and the reset failure as its error,
\* without the confirmation line; every tick before the shutdown had
\* completed and the failed reset call was the last and only reset call.  A
\* continuous run that observed a shutdown ends with success exactly when the
\* reset call succeeded or was suppressed.
C11_FinalCallFailureIsFailure ==
  Continuous =>
    /\ err = ResetFailure
         => /\ pc = "exit"
            /\ exit_status = "failure"
            /\ ShutdownObserved
            /\ ~args.no_reset_on_exit
            /\ Len(samples) = ticks
            /\ Len(calls) = ticks + 1
            /\ calls[Len(calls)] = ResetCall
            /\ "Idle hint set to false. Exiting." \notin Range(out)
            /\ inflight = {}
    /\ (pc = "exit" /\ ShutdownObserved)
         => /\ (exit_status = "failure") = (err = ResetFailure)
            /\ (exit_status = "success") =
                 \/ "Idle hint set to false. Exiting." \in Range(out)
                 \/ args.no_reset_on_exit

C11_Witness ==
  /\ Continuous
  /\ ShutdownObserved
  /\ pc = "exit"
  /\ exit_status = "failure"
  /\ err = ResetFailure
  /\ ticks = 2

\* C12: once the monitor is constructed its poll interval is
\* max(threshold / 10, 5 s) of the configured threshold (5 s for 50 s, 30 s
\* for 300 s, 5 s for 3 s), hence never below 5 s, in every later state: no
\* tick, shutdown or error changes it.
C12_PollInterval ==
  monitor # NoMonitor =>
    /\ monitor.idle_threshold = args.idle_threshold * 1000
    /\ monitor.check_interval =
         (IF args.idle_threshold * 100 >= 5000
            THEN args.idle_threshold * 100 ELSE 5000)
    /\ monitor.check_interval >= 5000
    /\ args.idle_threshold = 50 => monitor.check_interval = 5000
    /\ args.idle_threshold = 300 => monitor.check_interval = 30000
    /\ args.idle_threshold = 3 => monitor.check_interval = 5000

C12_Witness ==
  /\ args.idle_threshold = 300
  /\ monitor.check_interval = 30000
  /\ ticks = 2
  /\ pc = "exit"
  /\ exit_status = "failure"

\* C13: a shutdown notification is never lost: once a signal has arrived it
\* stays pending until the loop observes it, whatever ticks run meanwhile; at
\* most one tick starts while a notification is pending (the tick chosen when
\* both branches were ready), and after such a tick the loop is never again
\* waiting for the timer.
C13_ShutdownNotLostByTick ==
  Continuous =>
    /\ signal_at # "" => (RecvReady \/ ShutdownObserved)
    /\ ticks_after_signal <= 1
    /\ ticks_after_signal = 1
         => /\ pc # "waiting"
            /\ pc = "select" => RecvReady

C13_Witness ==
  /\ Continuous
  /\ ticks_after_signal = 1
  /\ signal_at = "waiting"
  /\ ticks = 2
  /\ ShutdownObserved
  /\ pc = "exit"

\* C14: the loop observes a shutdown only at its select!, never inside a
\* tick: while a tick's call is in flight no shutdown has been observed, and
\* once one is observed every tick that started has completed (its call
\* answered, its notification printed, state assigned), also when the signal
\* arrived while the call was in flight.  The final set_idle_hint(false) call,
\* once sent, is answered (Ok or Err) before the process ends.
C14_ShutdownOnlyAtSelect ==
  Continuous =>
    /\ pc \in {"tick", "set_idle_hint", "await_idle_hint"}
         => ~ShutdownObserved
    /\ pc = "await_idle_hint"
         => inflight = {[idle |-> new_state, by |-> "run"]}
    /\ ShutdownObserved
         => /\ Len(samples) = ticks
            /\ Cardinality(CallsBy("run")) = ticks
            /\ inflight \subseteq {ResetCall}
            /\ ticks > 0 => state = Class(ticks)
            /\ Notifications = ExpectedNotifications(ticks, 1, FALSE)
    /\ (pc = "exit" /\ CallsBy("set_idle_hint_false") # {})
         => /\ inflight = {}
            /\ \/ "Idle hint set to false. Exiting." \in Range(out)
               \/ err = ResetFailure

C14_Witness ==
  /\ Continuous
  /\ signal_at = "await_idle_hint"
  /\ ShutdownObserved
  /\ ticks = 1
  /\ state = TRUE
  /\ Notifications = <<"User is idle">>
  /\ pc = "exit"

C14_WitnessFinalCall ==
  /\ Continuous
  /\ signal_at = "await_reset"
  /\ pc = "exit"
  /\ exit_status = "success"
  /\ hint = FALSE

\* C15: at most one set_idle_hint call is in flight, and only while the task
\* is awaiting it; when a tick starts and while it samples, no call is in
\* flight and every call of the earlier ticks has been answered, so a slow
\* call delays the next tick and never overlaps it.
C15_OneCallInFlight ==
  /\ Cardinality(inflight) <= 1
  /\ (inflight # {}) =
       (pc \in {"await_idle_hint", "one_shot_await_idle_hint", "await_reset"})
  /\ inflight # {} => inflight = {calls[Len(calls)]}
  /\ pc \in {"select", "waiting", "tick", "set_idle_hint"}
       => /\ inflight = {}
          /\ Len(calls) = Len(samples) - (IF pc = "set_idle_hint" THEN 1 ELSE 0)

C15_Witness ==
  /\ pc = "await_idle_hint"
  /\ ticks = 2
  /\ Len(calls) = 2
  /\ inflight = {[idle |-> new_state, by |-> "run"]}
  /\ hint # new_state

\* C16: whenever the loop is at its wait (about to poll select!, or waiting)
\* after at least one tick, every started tick has completed, and the remote
\* idle flag and run's remembered state both equal the classification of the
\* last tick's sample; until the first tick has completed the remembered
\* state is Active.
C16_FlagFollowsLastTick ==
  Continuous =>
    /\ pc \in {"select", "waiting"}
         => /\ Len(samples) = ticks
            /\ ticks >= 1 => (hint = Class(ticks) /\ state = Class(ticks))
            /\ ticks = 0 => state = FALSE
    /\ (ticks = 1 /\ pc \in {"tick", "set_idle_hint", "await_idle_hint"})
         => state = FALSE

C16_Witness ==
  /\ Continuous
  /\ pc = "waiting"
  /\ ticks = 2
  /\ Class(1) /\ ~Class(2)
  /\ hint = FALSE
  /\ state = FALSE

SignalInstallFailures ==
  {"Failed to install SIGTERM handler", "Failed to install SIGINT handler"}

ConstructionFailures ==
  {"Failed to connect to X11 server", "Failed to get X11 screen",
   "Failed to connect to system D-Bus", "Failed to create Login1Session proxy"}

\* C17: when installing a signal handler or constructing the monitor (X11
\* connection, screen, D-Bus connection, session proxy) fails, the process
\* has ended with failure status without a monitor: no tick, no sample, no
\* set_idle_hint call (tick, one-shot or reset) was made and none is in
\* flight.  Without a monitor nothing is ever sampled or called.
C17_StartupFailurePreventsLoop ==
  /\ err \in SignalInstallFailures \cup ConstructionFailures
       => /\ pc = "exit"
          /\ exit_status = "failure"
          /\ monitor = NoMonitor
          /\ ticks = 0
          /\ samples = <<>>
          /\ calls = <<>>
          /\ inflight = {}
          /\ Notifications = <<>>
          /\ ~ShutdownObserved
  /\ err \in SignalInstallFailures => (out = <<>> /\ signal_at = "")
  /\ monitor = NoMonitor
       => /\ pc \in {"main", "new", "exit"}
          /\ samples = <<>>
          /\ calls = <<>>

C17_Witness ==
  /\ err = "Failed to connect to system D-Bus"
  /\ signal_at = "new"
  /\ sigterm
  /\ pc = "exit"

C17_WitnessSignals ==
  /\ err = "Failed to install SIGINT handler"
  /\ pc = "exit"
  /\ exit_status = "failure"

\* C18: when the set_idle_hint call of tick k fails, tick k has printed no
\* notification and has not assigned state: the notifications are those of
\* ticks 1..k-1 and state is the classification of tick k-1 (Active for
\* k = 1), also when tick k's classification differs from it.  The same holds
\* while the call is still in flight.
C18_FailedCallLeavesStateAndOutput ==
  (Continuous /\ (err = RemoteCallFailure \/ pc = "await_idle_hint")) =>
    /\ Len(samples) = ticks
    /\ calls[ticks] = [idle |-> Class(ticks), by |-> "run"]
    /\ Notifications = ExpectedNotifications(ticks - 1, 1, FALSE)
    /\ state = (IF ticks > 1 THEN Class(ticks - 1) ELSE FALSE)

C18_Witness ==
  /\ Continuous
  /\ err = RemoteCallFailure
  /\ ticks = 2
  /\ ~Class(1) /\ Class(2)
  /\ state = FALSE
  /\ Notifications = <<>>

\* a continuous run is past its loop without a fatal error of the loop
LoopLeftNormally ==
  \/ pc \in {"returned", "await_reset"}
  \/ pc = "exit" /\ (exit_status = "success" \/ err = ResetFailure)

C19_Safety ==
  Continuous =>
    /\ LoopLeftNormally => (ShutdownObserved /\ signal_at # "")
    /\ (pc = "exit" /\ ~ShutdownObserved)
         => /\ exit_status = "failure"
            /\ err \in SignalInstallFailures \cup ConstructionFailures
                         \cup {QueryFailure, RemoteCallFailure}

\* C19: in continuous mode run returns normally only by observing a shutdown:
\* a run that is past its loop without a fatal error, and so every process
\* that ends with success, has received a signal and observed it, and a
\* process that ends without having observed one ended with a fatal error.
\* And the loop keeps ticking: a run that has been entered goes on to start
\* tick after tick (up to the MaxTicks ticks of the model) unless a signal
\* arrives or a fatal error ends it.
C19_ReturnsOnlyOnShutdown ==
  /\ []C19_Safety
  /\ (Continuous /\ pc = "run")
       ~> (ticks = MaxTicks \/ signal_at # "" \/ exit_status = "failure")

C19_Witness ==
  /\ Continuous
  /\ pc = "exit"
  /\ exit_status = "success"
  /\ ShutdownObserved
  /\ signal_at = "waiting"
  /\ ticks = MaxTicks

\* C20: under fair scheduling, with every X11 query and D-Bus call answered,
\* a continuous process that has a shutdown notification pending eventually
\* ends (with success, with the failure of a tick already started, or with
\* the failure of the reset call): it does not stay in the loop.
C20_ShutdownLeadsToExit ==
  (Continuous /\ RecvReady /\ pc # "exit") ~> (pc = "exit")

C20_Witness ==
  /\ Continuous
  /\ signal_at = "tick"
  /\ ticks_after_signal = 0
  /\ ShutdownObserved
  /\ pc = "exit"
  /\ exit_status = "success"

====
